---- MODULE Spec2Model ----
(***************************************************************************)
(* A model of qecc.StabilizerCode (src/qecc/stab.py): stabilizer codes     *)
(* given by the generators of the stabilizer group and representatives of  *)
(* the logical operators, with the group enumerations, the distance, the   *)
(* syndrome-table decoder, concatenation, generator permutation and the    *)
(* greedy generator alignment.                                             *)
(*                                                                         *)
(* A Pauli operator is a record [op, ph]: op the sequence of per-qubit     *)
(* symbols "I","X","Y","Z" and ph the exponent of the overall phase i^ph.  *)
(* The Pauli and Clifford algebras (PauliClass, paulicollections,          *)
(* CliffordClass) are consumed by stab.py through the contracts its call   *)
(* sites and the design document state; they are modelled from those.      *)
(***************************************************************************)
EXTENDS Integers, Sequences, FiniteSets, TLC

(***************************************************************************)
(* Bounds of the model.                                                    *)
(***************************************************************************)
\* flip_code(t) is instantiated for t in 1..MaxT
MaxT == 2
\* unencoded_state / ancilla_register are instantiated for registers of up
\* to MaxReg qubits
MaxReg == 2
\* minimize_distance_from is called on one receiver at most MaxMinimize times
MaxMinimize == 2
\* the largest register and the largest t of the codes joined with &
MaxAnd == 1

(***************************************************************************)
(* Generic sequence helpers.                                               *)
(***************************************************************************)
RECURSIVE SumSeq(_)
SumSeq(s) == IF s = <<>> THEN 0 ELSE Head(s) + SumSeq(Tail(s))

RECURSIVE Flatten(_)
Flatten(ss) == IF ss = <<>> THEN <<>> ELSE Head(ss) \o Flatten(Tail(ss))

Range(s) == {s[i] : i \in DOMAIN s}

Repeat(x, n) == [i \in 1..n |-> x]

RECURSIVE Pow(_, _)
Pow(b, e) == IF e <= 0 THEN 1 ELSE b * Pow(b, e - 1)

\* Python's list.index: the first position holding x (0 when absent).
IndexOf(s, x) ==
    IF \E i \in DOMAIN s : s[i] = x
    THEN CHOOSE i \in DOMAIN s : s[i] = x /\ \A j \in 1..(i - 1) : s[j] # x
    ELSE 0

(***************************************************************************)
(* The Pauli algebra consumed by stab.py.                                  *)
(***************************************************************************)
\* the singleton marking an unconstrained image or an unmapped syndrome
Unspecified == [unspecified |-> TRUE]

\* the single-qubit product a.b = i^MultPh(a,b) MultOp(a,b)
MultOp(a, b) ==
    CASE a = "I" -> b
      [] b = "I" -> a
      [] a = b   -> "I"
      [] {a, b} = {"X", "Y"} -> "Z"
      [] {a, b} = {"Y", "Z"} -> "X"
      [] OTHER -> "Y"

MultPh(a, b) ==
    CASE a = "I" \/ b = "I" \/ a = b -> 0
      [] <<a, b>> \in {<<"X", "Y">>, <<"Y", "Z">>, <<"Z", "X">>} -> 1
      [] OTHER -> 3

Pauli(operator, phase) == [op |-> operator, ph |-> phase % 4]

\* ensure_pauli on a label string: phase +1
P(operator) == Pauli(operator, 0)

PauliLen(A) == Len(A.op)

\* Pauli.__mul__: qubit-wise product, the phases accumulated modulo 4
PauliMul(A, B) ==
    Pauli([i \in 1..Len(A.op) |-> MultOp(A.op[i], B.op[i])],
          A.ph + B.ph + SumSeq([i \in 1..Len(A.op) |-> MultPh(A.op[i], B.op[i])]))

\* Pauli.__and__: tensor product, qubits of A first
PauliAnd(A, B) == Pauli(A.op \o B.op, A.ph + B.ph)

\* Pauli.mul_phase(ph): multiplies the operator by i^ph
mul_phase(A, ph) == Pauli(A.op, A.ph + ph)

eye_p(n) == P(Repeat("I", n))

\* elem_gen(nq, idx, kind): kind on qubit idx (0-based), identity elsewhere
elem_gen(n, idx, kind) == P([i \in 1..n |-> IF i = idx + 1 THEN kind ELSE "I"])

\* Pauli.wt: the number of non-identity symbols
wt(A) == Cardinality({i \in DOMAIN A.op : A.op[i] # "I"})

\* Pauli.hamming_dist: the number of positions whose symbols differ
hamming_dist(A, B) == Cardinality({i \in DOMAIN A.op : A.op[i] # B.op[i]})

\* two Paulis anticommute iff they differ, both non-identity, on an odd
\* number of qubits
Anticommute(A, B) ==
    Cardinality({i \in DOMAIN A.op :
        A.op[i] # "I" /\ B.op[i] # "I" /\ A.op[i] # B.op[i]}) % 2 = 1

Commute(A, B) == ~Anticommute(A, B)

\* Pauli.permute_op(perm): X, Y, Z become perm[0], perm[1], perm[2]
permute_op(A, perm) ==
    Pauli([i \in DOMAIN A.op |->
              CASE A.op[i] = "X" -> perm[1]
                [] A.op[i] = "Y" -> perm[2]
                [] A.op[i] = "Z" -> perm[3]
                [] OTHER -> "I"],
          A.ph)

\* reduce(op.mul, ps, init)
RECURSIVE ReduceMul(_, _)
ReduceMul(ps, acc) ==
    IF ps = <<>> THEN acc ELSE ReduceMul(Tail(ps), PauliMul(acc, Head(ps)))

\* reduce(op.and_, ps, init)
RECURSIVE ReduceAnd(_, _)
ReduceAnd(ps, acc) ==
    IF ps = <<>> THEN acc ELSE ReduceAnd(Tail(ps), PauliAnd(acc, Head(ps)))

\* itertools.combinations of the indices lo..n taken r at a time, in
\* lexicographic order
RECURSIVE Combinations(_, _, _)
Combinations(lo, n, r) ==
    IF r = 0 THEN << <<>> >>
    ELSE IF n - lo + 1 < r THEN <<>>
    ELSE LET with == Combinations(lo + 1, n, r - 1)
         IN  [i \in 1..Len(with) |-> <<lo>> \o with[i]] \o Combinations(lo + 1, n, r)

\* powerset(s): chain of combinations(s, r) for r = 0..len(s), as index tuples
PowersetIdx(n) == Flatten([r1 \in 1..(n + 1) |-> Combinations(1, n, r1 - 1)])

\* powerset(s) as tuples of elements
powerset(s) ==
    LET idx == PowersetIdx(Len(s))
    IN  [i \in 1..Len(idx) |-> [j \in 1..Len(idx[i]) |-> s[idx[i][j]]]]

\* from_generators(gens, coset_rep, incl_identity): the product of every
\* subset of gens, each multiplied onto coset_rep
from_generators(gens, coset_rep, incl_identity) ==
    LET subsets == powerset(gens)
        kept == SelectSeq(subsets, LAMBDA t : incl_identity \/ Len(t) > 0)
    IN  [i \in 1..Len(kept) |-> ReduceMul(kept[i], coset_rep)]

(***************************************************************************)
(* StabilizerCode: construction and read-only properties.                  *)
(***************************************************************************)
\* label=None; every label is a tuple of its parts
NoLabel == <<>>

\* StabilizerCode.__init__
StabilizerCode(group_generators, logical_xs, logical_zs, label) ==
    [group_generators |-> group_generators,
     logical_xs       |-> logical_xs,
     logical_zs       |-> logical_zs,
     label            |-> label]

\* StabilizerCode.nq: the width of the first operator that is not
\* Unspecified among generators + logical_xs + logical_zs, else 0
nq(self) ==
    LET all == SelectSeq(self.group_generators \o self.logical_xs \o self.logical_zs,
                         LAMBDA g : g # Unspecified)
    IN  IF all = <<>> THEN 0 ELSE PauliLen(all[1])

n_constraints(self) == Len(self.group_generators)

nq_logical(self) == nq(self) - n_constraints(self)

\* logical_ys with the phase of the product left as it is
logical_ys_raw_product(self) ==
    LET n == IF Len(self.logical_xs) < Len(self.logical_zs)
             THEN Len(self.logical_xs) ELSE Len(self.logical_zs)
    IN  [i \in 1..n |-> PauliMul(self.logical_xs[i], self.logical_zs[i])]

\* StabilizerCode.logical_ys: (ex * zed).mul_phase(1) over zip(xs, zs)
logical_ys(self) ==
    LET n == IF Len(self.logical_xs) < Len(self.logical_zs)
             THEN Len(self.logical_xs) ELSE Len(self.logical_zs)
    IN  [i \in 1..n |-> mul_phase(PauliMul(self.logical_xs[i], self.logical_zs[i]), 1)]

\* stabilizer_group that leaves the first generator out of the enumeration
stabilizer_group_skip_first(self, coset_rep) ==
    from_generators(SubSeq(self.group_generators, 2, Len(self.group_generators)),
                    IF coset_rep = Unspecified THEN eye_p(nq(self)) ELSE coset_rep,
                    TRUE)

\* StabilizerCode.stabilizer_group(coset_rep); coset_rep = Unspecified
\* stands for the default None, for which the identity is the representative
stabilizer_group(self, coset_rep) ==
    from_generators(self.group_generators,
                    IF coset_rep = Unspecified THEN eye_p(nq(self)) ELSE coset_rep,
                    TRUE)

\* StabilizerCode.logical_pauli_group(incl_identity)
logical_pauli_group(self, incl_identity) ==
    from_generators(self.logical_xs \o self.logical_zs, eye_p(nq(self)), incl_identity)

\* normalizer_group with the sense of mod_s inverted
normalizer_group_inverted(self, mod_s) ==
    LET reps == logical_pauli_group(self, mod_s)
    IN  Flatten([i \in 1..Len(reps) |-> stabilizer_group(self, reps[i])])

\* StabilizerCode.normalizer_group(mod_s)
normalizer_group(self, mod_s) ==
    LET reps == logical_pauli_group(self, ~mod_s)
    IN  Flatten([i \in 1..Len(reps) |-> stabilizer_group(self, reps[i])])

\* min(...) of a non-empty sequence of numbers
MinOf(s) == CHOOSE m \in Range(s) : \A x \in Range(s) : m <= x

\* distance taken over all of N(S), the stabilizer group included
distance_over_normalizer(self) ==
    LET N == normalizer_group(self, FALSE)
    IN  MinOf([i \in 1..Len(N) |-> wt(N[i])])

\* StabilizerCode.distance
distance(self) ==
    LET N == normalizer_group(self, TRUE)
    IN  MinOf([i \in 1..Len(N) |-> wt(N[i])])

\* StabilizerCode.n_correctable: floor((distance - 1) / 2)
n_correctable(self) == (distance(self) - 1) \div 2

(***************************************************************************)
(* Operators and combinators.                                              *)
(***************************************************************************)
\* PauliList & Pauli and Pauli & PauliList: element-wise tensor product
ListAnd(ps, A) == [i \in 1..Len(ps) |-> PauliAnd(ps[i], A)]
AndList(A, ps) == [i \in 1..Len(ps) |-> PauliAnd(A, ps[i])]

\* StabilizerCode.__and__
code_and(self, other) ==
    StabilizerCode(
        ListAnd(self.group_generators, eye_p(nq(other)))
            \o AndList(eye_p(nq(self)), other.group_generators),
        ListAnd(self.logical_xs, eye_p(nq(other)))
            \o AndList(eye_p(nq(self)), other.logical_xs),
        ListAnd(self.logical_zs, eye_p(nq(other)))
            \o AndList(eye_p(nq(self)), other.logical_zs),
        NoLabel)

\* __eq__ that compares the label as well
code_eq_with_label(self, other) ==
    /\ self.group_generators = other.group_generators
    /\ self.logical_xs = other.logical_xs
    /\ self.logical_zs = other.logical_zs
    /\ self.label = other.label

\* StabilizerCode.__eq__: the label is not compared
code_eq(self, other) ==
    /\ self.group_generators = other.group_generators
    /\ self.logical_xs = other.logical_xs
    /\ self.logical_zs = other.logical_zs

\* permute_gen_ops that copies logical_zs without permuting them
permute_gen_ops_keep_zs(self, perm) ==
    StabilizerCode(
        [i \in 1..Len(self.group_generators) |-> permute_op(self.group_generators[i], perm)],
        [i \in 1..Len(self.logical_xs) |-> permute_op(self.logical_xs[i], perm)],
        self.logical_zs,
        NoLabel)

\* StabilizerCode.permute_gen_ops
permute_gen_ops(self, perm) ==
    StabilizerCode(
        [i \in 1..Len(self.group_generators) |-> permute_op(self.group_generators[i], perm)],
        [i \in 1..Len(self.logical_xs) |-> permute_op(self.logical_xs[i], perm)],
        [i \in 1..Len(self.logical_zs) |-> permute_op(self.logical_zs[i], perm)],
        NoLabel)

\* an exception leaving a method
Raised(kind) == [raised |-> kind]
IsRaised(v) == "raised" \in DOMAIN v

\* StabilizerCode.block_logical_pauli
block_logical_pauli(self, A) ==
    IF nq_logical(self) > 1 THEN Raised("NotImplementedError")
    ELSE IF Len(self.logical_xs) = 0 \/ Len(self.logical_zs) = 0
    THEN Raised("IndexError")
    ELSE LET replace_dict(sq_op) ==
                 CASE sq_op = "I" -> eye_p(nq(self))
                   [] sq_op = "X" -> self.logical_xs[1]
                   [] sq_op = "Y" ->
                        mul_phase(PauliMul(self.logical_xs[1], self.logical_zs[1]), 1)
                   [] OTHER -> self.logical_zs[1]
         IN  ReduceAnd([i \in 1..Len(A.op) |-> replace_dict(A.op[i])], eye_p(0))

\* map(self.block_logical_pauli, ps): the first exception raised, if any
MapBlock(self, ps) ==
    LET img == [i \in 1..Len(ps) |-> block_logical_pauli(self, ps[i])]
        bad == SelectSeq(img, IsRaised)
    IN  IF bad # <<>> THEN bad[1] ELSE [paulis |-> img]

\* concatenate placing the copies of the inner generators last block first
concatenate_last_block_first(self, other) ==
    IF nq_logical(self) > 1 \/ nq_logical(other) > 1
    THEN Raised("NotImplementedError")
    ELSE LET nq_self  == nq(self)
             nq_other == nq(other)
             blocks == Flatten([k1 \in 1..nq_other |->
                           ListAnd(AndList(eye_p(nq_self * (nq_other - k1)),
                                           self.group_generators),
                                   eye_p(nq_self * (k1 - 1)))])
             outer == MapBlock(self, other.group_generators)
             xs == MapBlock(self, other.logical_xs)
             zs == MapBlock(self, other.logical_zs)
         IN  IF IsRaised(outer) THEN outer
             ELSE IF IsRaised(xs) THEN xs
             ELSE IF IsRaised(zs) THEN zs
             ELSE StabilizerCode(blocks \o outer.paulis, xs.paulis, zs.paulis, NoLabel)

\* StabilizerCode.concatenate
concatenate(self, other) ==
    IF nq_logical(self) > 1 \/ nq_logical(other) > 1
    THEN Raised("NotImplementedError")
    ELSE LET nq_self  == nq(self)
             nq_other == nq(other)
             blocks == Flatten([k1 \in 1..nq_other |->
                           ListAnd(AndList(eye_p(nq_self * (k1 - 1)), self.group_generators),
                                   eye_p(nq_self * (nq_other - k1)))])
             outer == MapBlock(self, other.group_generators)
             xs == MapBlock(self, other.logical_xs)
             zs == MapBlock(self, other.logical_zs)
         IN  IF IsRaised(outer) THEN outer
             ELSE IF IsRaised(xs) THEN xs
             ELSE IF IsRaised(zs) THEN zs
             ELSE StabilizerCode(blocks \o outer.paulis, xs.paulis, zs.paulis, NoLabel)

(***************************************************************************)
(* Common codes.                                                           *)
(***************************************************************************)
\* elem_gens(nq)[0] and elem_gens(nq)[1]
elem_gens_X(n) == [i \in 1..n |-> elem_gen(n, i - 1, "X")]
elem_gens_Z(n) == [i \in 1..n |-> elem_gen(n, i - 1, "Z")]

ancilla_register(n) == StabilizerCode(elem_gens_Z(n), <<>>, <<>>, NoLabel)

unencoded_state(k, a) ==
    code_and(StabilizerCode(<<>>, elem_gens_X(k), elem_gens_Z(k), NoLabel),
             ancilla_register(a))

\* flip_code whose logical X leaves out the last qubit
flip_code_short_logical(t, stab_kind) ==
    LET n == 2 * t + 1
    IN  StabilizerCode(
            [j1 \in 1..(n - 1) |->
                PauliAnd(PauliAnd(PauliAnd(eye_p(j1 - 1), P(<<stab_kind>>)),
                                  P(<<stab_kind>>)),
                         eye_p(n - (j1 - 1) - 2))],
            <<P(Repeat("X", n - 1) \o <<"I">>)>>, <<P(Repeat("Z", n))>>,
            <<stab_kind, "-flip code", t>>)

flip_code(t, stab_kind) ==
    LET n == 2 * t + 1
    IN  StabilizerCode(
            [j1 \in 1..(n - 1) |->
                PauliAnd(PauliAnd(PauliAnd(eye_p(j1 - 1), P(<<stab_kind>>)),
                                  P(<<stab_kind>>)),
                         eye_p(n - (j1 - 1) - 2))],
            <<P(Repeat("X", n))>>, <<P(Repeat("Z", n))>>,
            <<stab_kind, "-flip code", t>>)

bit_flip_code(t) == flip_code(t, "Z")

phase_flip_code(t) == flip_code(t, "X")

perfect_5q_code ==
    StabilizerCode(
        << P(<<"X","Z","Z","X","I">>),
           P(<<"I","X","Z","Z","X">>),
           P(<<"X","I","X","Z","Z">>),
           P(<<"Z","X","I","X","Z">>) >>,
        <<P(Repeat("X", 5))>>, <<P(Repeat("Z", 5))>>,
        <<"5-qubit perfect code">>)

steane_code ==
    StabilizerCode(
        << P(<<"X","X","X","X","I","I","I">>),
           P(<<"X","X","I","I","X","X","I">>),
           P(<<"X","I","X","I","X","I","X">>),
           P(<<"Z","Z","Z","Z","I","I","I">>),
           P(<<"Z","Z","I","I","Z","Z","I">>),
           P(<<"Z","I","Z","I","Z","I","Z">>) >>,
        <<P(Repeat("X", 7))>>, <<P(Repeat("Z", 7))>>,
        <<"7-qubit Steane code">>)

shor_code ==
    [concatenate(bit_flip_code(1), phase_flip_code(1)) EXCEPT !.label = <<"9-qubit Shor code">>]

(***************************************************************************)
(* The Clifford operators star_decoder reads.  A Clifford is the record    *)
(* [xout, zout] of the images of the elementary X and Z generators.        *)
(***************************************************************************)
Clifford(xout, zout) == [xout |-> xout, zout |-> zout]

\* Pauli.as_clifford() applied to A: conjugation by the Pauli E, which
\* negates A exactly when E and A anticommute
ConjugateBy(E, A) == IF Anticommute(E, A) THEN mul_phase(A, 2) ELSE A

\* Pauli.as_clifford() of a single-qubit Pauli
as_clifford(E) == Clifford(<<ConjugateBy(E, P(<<"X">>))>>, <<ConjugateBy(E, P(<<"Z">>))>>)

\* StabilizerCode.encoding_cliffords().next(): the images of the X
\* generators of the ancillas are whatever the completion chose; star_decoder
\* never reads them
encoding_clifford(self) ==
    Clifford(self.logical_xs \o Repeat(Unspecified, n_constraints(self)),
             self.logical_zs \o self.group_generators)

\* encoder.inv() applied to i^a times an image of the encoder: i^a times
\* the elementary generator that has that image
decoder_apply(encoder, A) ==
    LET n == Len(encoder.zout)
        zs == {j \in 1..n : encoder.zout[j] # Unspecified /\ encoder.zout[j].op = A.op}
        xs == {j \in 1..n : encoder.xout[j] # Unspecified /\ encoder.xout[j].op = A.op}
    IN  IF zs # {}
        THEN LET j == CHOOSE j \in zs : TRUE
             IN  mul_phase(elem_gen(n, j - 1, "Z"), A.ph + 4 - encoder.zout[j].ph)
        ELSE LET j == CHOOSE j \in xs : TRUE
             IN  mul_phase(elem_gen(n, j - 1, "X"), A.ph + 4 - encoder.xout[j].ph)

\* (decoder * error.as_clifford() * encoder) applied to the elementary
\* generator of the given kind on qubit idx (0-based)
effective_gate(encoder, error, kind, idx) ==
    LET img == IF kind = "X" THEN encoder.xout[idx + 1] ELSE encoder.zout[idx + 1]
    IN  decoder_apply(encoder, ConjugateBy(error, img))

\* Pauli.__getitem__(idx): the symbol on qubit idx, the phase kept
PauliItem(A, idx) == Pauli(<<A.op[idx + 1]>>, A.ph)

\* star_decoder's error_to_pauli; the empty tuple stands for None
error_to_pauli(error) ==
    CASE error = as_clifford(P(<<"I">>)) -> <<"I">>
      [] error = as_clifford(P(<<"X">>)) -> <<"X">>
      [] error = as_clifford(P(<<"Y">>)) -> <<"Y">>
      [] error = as_clifford(P(<<"Z">>)) -> <<"Z">>
      [] OTHER -> <<>>

\* the Pauli strings on n qubits of weight exactly w, in lexicographic order
RECURSIVE StringsOfWeight(_, _)
StringsOfWeight(n, w) ==
    IF n = 0 THEN (IF w = 0 THEN << <<>> >> ELSE <<>>)
    ELSE LET idt  == IF w <= n - 1 THEN StringsOfWeight(n - 1, w) ELSE <<>>
             rest == IF w >= 1 THEN StringsOfWeight(n - 1, w - 1) ELSE <<>>
             pre(sym, ss) == [i \in 1..Len(ss) |-> <<sym>> \o ss[i]]
         IN  pre("I", idt) \o pre("X", rest) \o pre("Y", rest) \o pre("Z", rest)

\* paulis_by_weight(nq, wt_max): every Pauli of weight 1..wt_max
paulis_by_weight(n, wt_max) ==
    LET byw == Flatten([w \in 1..wt_max |-> StringsOfWeight(n, w)])
    IN  [i \in 1..Len(byw) |-> P(byw[i])]

\* it.product(range(2), repeat=n): the binary tuples in lexicographic order
RECURSIVE BinaryTuples(_)
BinaryTuples(n) ==
    IF n = 0 THEN << <<>> >>
    ELSE LET t == BinaryTuples(n - 1)
         IN  [i \in 1..Len(t) |-> <<0>> \o t[i]] \o [i \in 1..Len(t) |-> <<1>> \o t[i]]

\* the syndrome read from qubits 0..n_constraints-1 instead of
\* nq_logical..nq-1
syndrome_of_from_zero(self, encoder, error) ==
    [j \in 1..(nq(self) - nq_logical(self)) |->
        effective_gate(encoder, error, "Z", j - 1).ph \div 2]

\* star_decoder, lines 244-253: the syndrome and the recovery of one error
syndrome_of(self, encoder, error) ==
    [j \in 1..(nq(self) - nq_logical(self)) |->
        effective_gate(encoder, error, "Z", nq_logical(self) + j - 1).ph \div 2]

recovery_of(self, encoder, error) ==
    Flatten([i \in 1..nq_logical(self) |->
        error_to_pauli(Clifford(
            <<PauliItem(effective_gate(encoder, error, "X", i - 1), i - 1)>>,
            <<PauliItem(effective_gate(encoder, error, "Z", i - 1), i - 1)>>))])

\* the dense table read with the syndrome bits in reverse order
recovery_list_reversed(self, syndrome_dict) ==
    LET syns == BinaryTuples(n_constraints(self))
        rev(t) == [j \in 1..Len(t) |-> t[Len(t) + 1 - j]]
    IN  [i \in 1..Len(syns) |->
            IF rev(syns[i]) \in DOMAIN syndrome_dict
            THEN P(syndrome_dict[rev(syns[i])]) ELSE Unspecified]

\* star_decoder, line 272: the dense table; syndrome_dict is a defaultdict
\* whose default is Unspecified, and PauliList turns each string into a Pauli
recovery_list(self, syndrome_dict) ==
    LET syns == BinaryTuples(n_constraints(self))
    IN  [i \in 1..Len(syns) |->
            IF syns[i] \in DOMAIN syndrome_dict
            THEN P(syndrome_dict[syns[i]]) ELSE Unspecified]

(***************************************************************************)
(* minimize_distance_from: the search of one position and its move.        *)
(***************************************************************************)
\* lines 287-301: the scan of the powerset of self_gens[idx_generator:];
\* best_gen = Unspecified stands for None
ScanOne(stab_elems, target, best) ==
    IF Len(stab_elems) = 0 THEN best
    ELSE LET stab_elem == ReduceMul(Tail(stab_elems), Head(stab_elems))
             hd == hamming_dist(stab_elem, target)
         IN  IF /\ hd <= best.min_hdist
                /\ wt(stab_elem) <= best.min_wt
                /\ (hd < best.min_hdist \/ wt(stab_elem) < best.min_wt)
             THEN [min_hdist |-> hd, min_wt |-> wt(stab_elem),
                   best_gen |-> stab_elem, best_gen_decomp |-> stab_elems]
             ELSE best

\* the candidates cands[lo..hi] visited in order, starting from best (the
\* range is halved so that the evaluation stays shallow)
RECURSIVE Scan(_, _, _, _, _)
Scan(cands, lo, hi, target, best) ==
    IF lo > hi THEN best
    ELSE IF lo = hi THEN ScanOne(cands[lo], target, best)
    ELSE LET mid == (lo + hi) \div 2
             first == Scan(cands, lo, mid, target, best)
         IN  \* the first half is evaluated before the second half starts
             IF first.min_hdist >= 0 THEN Scan(cands, mid + 1, hi, target, first)
             ELSE first

best_candidate(self, self_gens, other_gens, idx_generator) ==
    LET cands == powerset(SubSeq(self_gens, idx_generator + 1, Len(self_gens)))
    IN  Scan(cands, 1, Len(cands), other_gens[idx_generator + 1],
         [min_hdist |-> nq(self) + 1, min_wt |-> nq(self) + 1,
          best_gen |-> Unspecified, best_gen_decomp |-> <<>>])

\* lines 305-322: which move applies the candidate
move_kind(self_gens, idx_generator, best) ==
    IF best.best_gen \in Range(self_gens) THEN "swap"
    ELSE IF self_gens[idx_generator + 1] \in Range(best.best_gen_decomp) THEN "set"
    ELSE "mul"

\* the multiply move overwriting the head generator with the candidate
apply_move_overwrite(self_gens, idx_generator, best) ==
    LET i == idx_generator + 1
    IN  CASE move_kind(self_gens, idx_generator, best) = "swap" ->
               LET idx == IndexOf(self_gens, best.best_gen)
               IN  [self_gens EXCEPT ![i] = self_gens[idx], ![idx] = self_gens[i]]
          [] OTHER ->
               [self_gens EXCEPT ![i] = best.best_gen]

\* the swap move writing the candidate at the head without moving the head
\* generator to the candidate's place
apply_move_swap_as_set(self_gens, idx_generator, best) ==
    LET i == idx_generator + 1
    IN  CASE move_kind(self_gens, idx_generator, best) = "mul" ->
               [self_gens EXCEPT ![i] = PauliMul(self_gens[i], best.best_gen)]
          [] OTHER ->
               [self_gens EXCEPT ![i] = best.best_gen]

apply_move(self_gens, idx_generator, best) ==
    LET i == idx_generator + 1
    IN  CASE move_kind(self_gens, idx_generator, best) = "swap" ->
               LET idx == IndexOf(self_gens, best.best_gen)
               IN  [self_gens EXCEPT ![i] = self_gens[idx], ![idx] = self_gens[i]]
          [] move_kind(self_gens, idx_generator, best) = "set" ->
               [self_gens EXCEPT ![i] = best.best_gen]
          [] OTHER ->
               [self_gens EXCEPT ![i] = PauliMul(self_gens[i], best.best_gen)]

(***************************************************************************)
(* The state machine: one StabilizerCode object (the receiver), the        *)
(* method calls made on it, and the position of the two loops that work    *)
(* on it step by step.                                                     *)
(***************************************************************************)
VARIABLES
    code,     \* the receiver: group_generators, logical_xs, logical_zs, label
    pc,       \* "idle", "minimize_distance_from" or "star_decoder"
    result,   \* what the last completed call returned or raised, until the
              \* caller drops it
    mdf,      \* locals of a running minimize_distance_from
    star,     \* locals of a running star_decoder
    n_minimize \* the minimize_distance_from calls made on the receiver so far

vars == <<code, pc, result, mdf, star, n_minimize>>

\* the codes of the named code families: flip_code for both kinds,
\* perfect_5q_code, steane_code, shor_code
StaticFactoryCodes ==
    {flip_code(t, k) : t \in 1..MaxT, k \in {"Z", "X"}}
        \cup {perfect_5q_code, steane_code, shor_code}

\* the codes the static factories build
Factories ==
    {flip_code(t, k) : t \in 1..MaxT, k \in {"Z", "X"}}
        \cup {perfect_5q_code, steane_code, shor_code}
        \cup {unencoded_state(k, a) : k \in 1..MaxReg, a \in 0..MaxReg}
        \cup {ancilla_register(n) : n \in 1..MaxReg}

\* the codes built with & from a flip code and an ancilla register, in
\* either order
Products ==
    {code_and(ancilla_register(n), flip_code(t, k)) :
        n \in 1..MaxAnd, t \in 1..MaxAnd, k \in {"Z", "X"}}
        \cup {code_and(flip_code(t, k), ancilla_register(n)) :
                n \in 1..MaxAnd, t \in 1..MaxAnd, k \in {"Z", "X"}}

\* the codes a caller holds
Codes == Factories \cup Products

\* the flip codes relabelled by permute_gen_ops, which brings Y into the
\* generators and the logical operators
Permuted ==
    {permute_gen_ops(flip_code(t, "Z"), perm) :
        t \in 1..MaxAnd, perm \in {<<"Y","X","Z">>, <<"X","Z","Y">>, <<"Z","Y","X">>}}

\* registers with no, with one and with more than one logical qubit
Registers ==
    {ancilla_register(n) : n \in 1..MaxAnd}
        \cup {unencoded_state(1, n) : n \in 1..MaxAnd}
        \cup {unencoded_state(n + 1, 0) : n \in 1..MaxAnd}

\* the outer codes handed to concatenate
OuterCodes == StaticFactoryCodes \cup Permuted \cup Registers

Perms == {<<"X","Y","Z">>, <<"X","Z","Y">>, <<"Y","X","Z">>,
          <<"Y","Z","X">>, <<"Z","X","Y">>, <<"Z","Y","X">>}

NoLocals == [idle |-> TRUE]

NoResult == [op |-> "none"]

\* no call is running and the caller holds no result: a call may start
Ready == pc = "idle" /\ result = NoResult

Init ==
    /\ code \in Codes
    /\ pc = "idle"
    /\ result = NoResult
    /\ mdf = NoLocals
    /\ star = NoLocals
    /\ n_minimize = 0

\* the calls below enumerate the logical Pauli group, which needs at least
\* one logical operator
HasLogicals(c) == Len(c.logical_xs) > 0 /\ Len(c.logical_zs) > 0

\* C.stabilizer_group()
StabilizerGroup ==
    /\ Ready
    /\ n_constraints(code) > 0
    /\ result' = [op |-> "stabilizer_group", val |-> stabilizer_group(code, Unspecified)]
    /\ UNCHANGED <<code, pc, mdf, star, n_minimize>>

\* C.normalizer_group(mod_s)
NormalizerGroup ==
    /\ Ready
    /\ HasLogicals(code)
    /\ \E mod_s \in BOOLEAN :
          result' = [op |-> "normalizer_group", mod_s |-> mod_s,
                     val |-> normalizer_group(code, mod_s)]
    /\ UNCHANGED <<code, pc, mdf, star, n_minimize>>

\* C.nq, C.nq_logical, C.distance
Metrics ==
    /\ Ready
    /\ HasLogicals(code)
    /\ result' = [op |-> "distance", nq |-> nq(code), nq_logical |-> nq_logical(code),
                  distance |-> distance(code)]
    /\ UNCHANGED <<code, pc, mdf, star, n_minimize>>

\* C.logical_ys
LogicalYs ==
    /\ Ready
    /\ HasLogicals(code)
    /\ result' = [op |-> "logical_ys", val |-> logical_ys(code)]
    /\ UNCHANGED <<code, pc, mdf, star, n_minimize>>

\* C.block_logical_pauli(A) for an operator A on up to two blocks
BlockLogicalPauli ==
    /\ Ready
    /\ \E m \in 1..2 : \E s \in [1..m -> {"I", "X", "Y", "Z"}] :
          result' = [op |-> "block_logical_pauli", arg |-> P(s),
                     val |-> block_logical_pauli(code, P(s))]
    /\ UNCHANGED <<code, pc, mdf, star, n_minimize>>

\* C.permute_gen_ops(perm)
PermuteGenOps ==
    /\ Ready
    /\ \E perm \in Perms :
          result' = [op |-> "permute_gen_ops", perm |-> perm,
                     val |-> permute_gen_ops(code, perm)]
    /\ UNCHANGED <<code, pc, mdf, star, n_minimize>>

\* C.concatenate(other)
Concatenate ==
    /\ Ready
    /\ \E other \in OuterCodes :
          result' = [op |-> "concatenate", other |-> other,
                     val |-> concatenate(code, other)]
    /\ UNCHANGED <<code, pc, mdf, star, n_minimize>>

\* C.minimize_distance_from(other): entry, lines 283-284
MinimizeBegin ==
    /\ Ready
    /\ \E other \in Codes :
          /\ n_constraints(other) = n_constraints(code)
          /\ nq(other) = nq(code)
          /\ mdf' = [other_gens |-> other.group_generators,
                     idx_generator |-> 0,
                     entry_gens |-> code.group_generators,
                     last |-> NoLocals]
    /\ n_minimize < MaxMinimize
    /\ n_minimize' = n_minimize + 1
    /\ pc' = "minimize_distance_from"
    /\ UNCHANGED <<code, result, star>>

\* one pass of the loop over idx_generator, lines 286-322
MinimizeStep ==
    /\ pc = "minimize_distance_from"
    /\ mdf.idx_generator < Len(code.group_generators)
    /\ LET self_gens == code.group_generators
           best == best_candidate(code, self_gens, mdf.other_gens, mdf.idx_generator)
       IN  IF best.best_gen = Unspecified
           THEN /\ pc' = "idle"
                /\ result' = [op |-> "minimize_distance_from", raised |-> "AssertionError"]
                /\ mdf' = NoLocals
                /\ UNCHANGED code
           ELSE /\ code' = [code EXCEPT !.group_generators =
                               apply_move(self_gens, mdf.idx_generator, best)]
                /\ mdf' = [mdf EXCEPT !.idx_generator = @ + 1,
                              !.last = [move |-> move_kind(self_gens, mdf.idx_generator, best),
                                        best |-> best,
                                        before |-> self_gens]]
                /\ UNCHANGED <<pc, result>>
    /\ UNCHANGED <<star, n_minimize>>

\* the loop is exhausted: return self, line 324
MinimizeReturn ==
    /\ pc = "minimize_distance_from"
    /\ mdf.idx_generator >= Len(code.group_generators)
    /\ pc' = "idle"
    /\ result' = [op |-> "minimize_distance_from", raised |-> "none",
                  steps |-> mdf.idx_generator, entry_gens |-> mdf.entry_gens]
    /\ mdf' = NoLocals
    /\ UNCHANGED <<code, star, n_minimize>>

\* C.star_decoder(for_enc): lines 232-241; for_enc is None (the code's own
\* first encoder) or the encoder of another code on the same registers
StarBegin ==
    /\ Ready
    /\ HasLogicals(code)
    /\ \E enc_of \in {code} \cup {c \in Factories :
                                     /\ nq(c) = nq(code)
                                     /\ n_constraints(c) = n_constraints(code)
                                     /\ HasLogicals(c)} :
          star' = [encoder |-> encoding_clifford(enc_of),
                   errors |-> <<eye_p(nq(code))>>
                                 \o paulis_by_weight(nq(code), n_correctable(code)),
                   pos |-> 0,
                   syndrome_dict |-> <<>>]
    /\ pc' = "star_decoder"
    /\ UNCHANGED <<code, result, mdf, n_minimize>>

\* d[k] = v on a dict
DictSet(d, k, v) == [x \in (DOMAIN d) \cup {k} |-> IF x = k THEN v ELSE d[x]]

\* one pass of the loop over errors, lines 243-260
StarStep ==
    /\ pc = "star_decoder"
    /\ star.pos < Len(star.errors)
    /\ LET error == star.errors[star.pos + 1]
           syndrome == syndrome_of(code, star.encoder, error)
           recovery == recovery_of(code, star.encoder, error)
       IN  IF Len(recovery) # nq_logical(code)
           THEN /\ pc' = "idle"
                /\ result' = [op |-> "star_decoder", raised |-> "TypeError"]
                /\ star' = NoLocals
           ELSE IF syndrome \in DOMAIN star.syndrome_dict
                   /\ star.syndrome_dict[syndrome] # recovery
           THEN /\ pc' = "idle"
                /\ result' = [op |-> "star_decoder", raised |-> "RuntimeError",
                              encoder |-> star.encoder, errors |-> star.errors,
                              pos |-> star.pos]
                /\ star' = NoLocals
           ELSE /\ star' = [star EXCEPT !.pos = @ + 1,
                               !.syndrome_dict = DictSet(@, syndrome, recovery)]
                /\ UNCHANGED <<pc, result>>
    /\ UNCHANGED <<code, mdf, n_minimize>>

\* the loop is exhausted: the dense table, lines 271-274
StarReturn ==
    /\ pc = "star_decoder"
    /\ star.pos >= Len(star.errors)
    /\ pc' = "idle"
    /\ result' = [op |-> "star_decoder", raised |-> "none",
                  encoder |-> star.encoder, errors |-> star.errors,
                  recovery_list |-> recovery_list(code, star.syndrome_dict)]
    /\ star' = NoLocals
    /\ UNCHANGED <<code, mdf, n_minimize>>

\* the caller drops the value the last call returned
Drop ==
    /\ pc = "idle"
    /\ result # NoResult
    /\ result' = NoResult
    /\ UNCHANGED <<code, pc, mdf, star, n_minimize>>

Next ==
    \/ StabilizerGroup
    \/ NormalizerGroup
    \/ Metrics
    \/ LogicalYs
    \/ BlockLogicalPauli
    \/ PermuteGenOps
    \/ Concatenate
    \/ MinimizeBegin
    \/ MinimizeStep
    \/ MinimizeReturn
    \/ StarBegin
    \/ StarStep
    \/ StarReturn
    \/ Drop

Spec == Init /\ [][Next]_vars

(***************************************************************************)
(* Properties.                                                             *)
(***************************************************************************)
\* the data-model invariants the derived computations assume of a code
MutuallyCommuting(gens) ==
    \A i, j \in DOMAIN gens : Commute(gens[i], gens[j])

\* no product of a non-empty subset of gens is the identity up to phase
Independent(gens) ==
    \A t \in Range(PowersetIdx(Len(gens))) :
        Len(t) > 0 =>
            ReduceMul([j \in 1..Len(t) |-> gens[t[j]]], eye_p(Len(gens[1].op))).op
                # eye_p(Len(gens[1].op)).op

Ops(ps) == {ps[i].op : i \in DOMAIN ps}

\* a valid code with k = nq_logical >= 1 logical qubits
ValidCode(c) ==
    /\ HasLogicals(c)
    /\ Len(c.logical_xs) = nq_logical(c)
    /\ Len(c.logical_zs) = nq_logical(c)
    /\ MutuallyCommuting(c.group_generators)
    /\ n_constraints(c) > 0 => Independent(c.group_generators)
    /\ \A i \in DOMAIN c.group_generators : \A j \in DOMAIN c.logical_xs :
          /\ Commute(c.group_generators[i], c.logical_xs[j])
          /\ Commute(c.group_generators[i], c.logical_zs[j])
    /\ \A i, j \in DOMAIN c.logical_xs :
          /\ Commute(c.logical_xs[i], c.logical_xs[j])
          /\ Commute(c.logical_zs[i], c.logical_zs[j])
          /\ Anticommute(c.logical_xs[i], c.logical_zs[j]) <=> (i = j)

\* C1: for a code whose generators are independent and mutually commuting,
\* stabilizer_group() yields exactly 2^n_constraints elements (all of them
\* different), and every yielded element commutes with every generator.
C1_StabilizerGroup ==
    (/\ result.op = "stabilizer_group"
     /\ Independent(code.group_generators)
     /\ MutuallyCommuting(code.group_generators))
    => /\ Len(result.val) = Pow(2, n_constraints(code))
       /\ Cardinality(Range(result.val)) = Pow(2, n_constraints(code))
       /\ \A i \in DOMAIN result.val : \A j \in DOMAIN code.group_generators :
             Commute(result.val[i], code.group_generators[j])

C1_Witness ==
    /\ result.op = "stabilizer_group"
    /\ code_eq(code, perfect_5q_code)
    /\ Len(result.val) = 16

\* C2: for a valid code with k logical qubits, normalizer_group(mod_s=True)
\* yields exactly the 4^k * 2^n_constraints - 2^n_constraints elements of
\* N(S) that are not in S; normalizer_group(mod_s=False) yields all of N(S)
\* (the 2^(2 nq - n_constraints) Pauli strings that commute with every
\* generator), every generator among them.
C2_NormalizerGroup ==
    (result.op = "normalizer_group" /\ ValidCode(code))
    => LET k  == nq_logical(code)
           nc == n_constraints(code)
           S  == Ops(stabilizer_group(code, Unspecified))
       IN  /\ \A i \in DOMAIN result.val : \A j \in DOMAIN code.group_generators :
                 Commute(result.val[i], code.group_generators[j])
           /\ result.mod_s =>
                 /\ Len(result.val) = Pow(4, k) * Pow(2, nc) - Pow(2, nc)
                 /\ Cardinality(Ops(result.val)) = Len(result.val)
                 /\ Ops(result.val) \cap S = {}
           /\ ~result.mod_s =>
                 /\ Len(result.val) = Pow(4, k) * Pow(2, nc)
                 /\ Cardinality(Ops(result.val)) = Pow(2, 2 * nq(code) - nc)
                 /\ \A j \in DOMAIN code.group_generators :
                       code.group_generators[j] \in Range(result.val)

C2_Witness ==
    /\ result.op = "normalizer_group"
    /\ result.mod_s
    /\ ValidCode(code)
    /\ nq_logical(code) = 2
    /\ n_constraints(code) >= 1

\* C3 as claimed: for bit_flip_code(t), t in {1, 2}: nq = 2t+1,
\* nq_logical = 1 and distance = 2t+1.
C3_Claimed ==
    \A t \in 1..2 :
        (result.op = "distance" /\ code_eq(code, bit_flip_code(t)))
        => /\ result.nq = 2 * t + 1
           /\ result.nq_logical = 1
           /\ result.distance = 2 * t + 1

\* C3, amended: for bit_flip_code(t), t in {1, 2}: nq = 2t+1, nq_logical = 1
\* and distance = 1 (a single Z is in N(S) and not in S).
C3_BitFlipMetrics ==
    \A t \in 1..2 :
        (result.op = "distance" /\ code_eq(code, bit_flip_code(t)))
        => /\ result.nq = 2 * t + 1
           /\ result.nq_logical = 1
           /\ result.distance = 1

C3_Witness ==
    /\ result.op = "distance"
    /\ code_eq(code, bit_flip_code(2))
    /\ result.nq = 5

\* C4: shor_code() has nq = 9 and nq_logical = 1 and compares equal to
\* bit_flip_code(1).concatenate(phase_flip_code(1)), whose label differs.
C4_ShorCode ==
    (/\ result.op = "concatenate"
     /\ code_eq(code, bit_flip_code(1))
     /\ code_eq(result.other, phase_flip_code(1)))
    => /\ ~IsRaised(result.val)
       /\ nq(shor_code) = 9
       /\ nq_logical(shor_code) = 1
       /\ code_eq(shor_code, result.val)
       /\ shor_code.label # result.val.label

C4_Witness ==
    /\ result.op = "concatenate"
    /\ code_eq(code, bit_flip_code(1))
    /\ code_eq(result.other, phase_flip_code(1))
    /\ ~IsRaised(result.val)
    /\ nq(result.val) = 9

\* C5 as claimed: concatenate raises whenever self or other does not have
\* exactly one logical qubit, and returns a code only when both have one.
C5_Claimed ==
    result.op = "concatenate"
    => (IsRaised(result.val) <=>
            ~(nq_logical(code) = 1 /\ nq_logical(result.other) = 1))

\* the failing input of C5: a receiver with one logical qubit concatenated
\* with an outer code that has none returns a code
C5_Reached ==
    /\ result.op = "concatenate"
    /\ code_eq(code, bit_flip_code(1))
    /\ code_eq(result.other, ancilla_register(1))
    /\ ~IsRaised(result.val)

\* the symbol perm puts in place of sym
Relabel(perm, sym) ==
    CASE sym = "X" -> perm[1] [] sym = "Y" -> perm[2] [] sym = "Z" -> perm[3]
      [] OTHER -> "I"

Relabelled(perm, old, new) ==
    /\ Len(new) = Len(old)
    /\ \A i \in DOMAIN old :
          /\ Len(new[i].op) = Len(old[i].op)
          /\ \A q \in DOMAIN old[i].op : new[i].op[q] = Relabel(perm, old[i].op[q])

C6_State ==
    result.op = "permute_gen_ops"
    => /\ Relabelled(result.perm, code.group_generators, result.val.group_generators)
       /\ Relabelled(result.perm, code.logical_xs, result.val.logical_xs)
       /\ Relabelled(result.perm, code.logical_zs, result.val.logical_zs)
       /\ \A t \in 1..MaxT :
             (code_eq(code, bit_flip_code(t)) /\ result.perm = <<"Z", "Y", "X">>)
             => result.val.group_generators = phase_flip_code(t).group_generators

\* C6: permute_gen_ops(perm) returns a code in which every symbol X, Y, Z of
\* every generator and logical operator is replaced by perm[0], perm[1],
\* perm[2] (I fixed, order and count unchanged); bit_flip_code(t) permuted
\* by 'ZYX' has the generators of phase_flip_code(t); the receiver is not
\* modified.
C6_PermuteGenOps == [](C6_State) /\ [][PermuteGenOps => code' = code]_vars

C6_Witness ==
    /\ result.op = "permute_gen_ops"
    /\ result.perm = <<"Z", "Y", "X">>
    /\ code_eq(code, bit_flip_code(1))
    /\ result.val.group_generators = <<P(<<"X","X","I">>), P(<<"I","X","X">>)>>

\* the group generated by gens, phases included
Generated(gens, n) == Range(from_generators(gens, eye_p(n), TRUE))

SameGroup(gens, entry_gens, n) ==
    /\ Generated(gens, n) = Generated(entry_gens, n)
    /\ Cardinality(Generated(gens, n)) = Pow(2, Len(entry_gens))

\* C7: minimize_distance_from never fails its assertion, takes one step per
\* generator position and then returns, and after every step (swap, set or
\* multiply) group_generators still generates the stabilizer group it
\* generated at entry, of order 2^n_constraints.
C7_MinimizeKeepsGroup ==
    /\ pc = "minimize_distance_from"
       => /\ mdf.idx_generator <= Len(code.group_generators)
          /\ Len(code.group_generators) = Len(mdf.entry_gens)
          /\ SameGroup(code.group_generators, mdf.entry_gens, nq(code))
    /\ result.op = "minimize_distance_from"
       => /\ result.raised = "none"
          /\ result.steps = Len(result.entry_gens)
          /\ SameGroup(code.group_generators, result.entry_gens, nq(code))

C7_Witness ==
    /\ pc = "minimize_distance_from"
    /\ mdf.last # NoLocals
    /\ mdf.last.move = "mul"
    /\ code.group_generators # mdf.last.before

\* the position of a syndrome in the dense table (1-based)
RECURSIVE SyndromeIndex0(_)
SyndromeIndex0(syn) ==
    IF syn = <<>> THEN 0
    ELSE 2 * SyndromeIndex0(SubSeq(syn, 1, Len(syn) - 1)) + syn[Len(syn)]

SyndromeIndex(syn) == SyndromeIndex0(syn) + 1

\* the parity-check pattern of an error: which generators it anticommutes with
ParityPattern(c, error) ==
    [j \in 1..n_constraints(c) |->
        IF Anticommute(error, c.group_generators[j]) THEN 1 ELSE 0]

\* the single-qubit Pauli an error amounts to on the logical qubit of a
\* code with one logical qubit
LogicalAction(c, error) ==
    CASE  Anticommute(error, c.logical_xs[1]) /\  Anticommute(error, c.logical_zs[1]) -> "Y"
      [] ~Anticommute(error, c.logical_xs[1]) /\  Anticommute(error, c.logical_zs[1]) -> "X"
      []  Anticommute(error, c.logical_xs[1]) /\ ~Anticommute(error, c.logical_zs[1]) -> "Z"
      [] OTHER -> "I"

LightErrors(n) == {P(str) : str \in {t \in [1..n -> {"I", "X", "Y", "Z"}] : wt(P(t)) <= 1}}

\* C8: for perfect_5q_code(), star_decoder() with its own encoder raises no
\* collision over the identity and the weight-1 Paulis, returns a table of
\* 16 entries, and the entry at the syndrome of every error of weight <= 1
\* is the Pauli that error amounts to on the logical qubit, so that applying
\* it undoes the error.
C8_PerfectCodeDecoder ==
    (/\ result.op = "star_decoder"
     /\ code_eq(code, perfect_5q_code)
     /\ result.encoder = encoding_clifford(code))
    => /\ result.raised = "none"
       /\ Range(result.errors) = LightErrors(5)
       /\ Len(result.recovery_list) = 16
       /\ \A error \in LightErrors(5) :
             result.recovery_list[SyndromeIndex(ParityPattern(code, error))]
                 = P(<<LogicalAction(code, error)>>)

C8_Witness ==
    /\ result.op = "star_decoder"
    /\ code_eq(code, perfect_5q_code)
    /\ result.encoder = encoding_clifford(code)
    /\ result.raised = "none"
    /\ result.recovery_list[SyndromeIndex(<<1, 0, 0, 0>>)] = P(<<"X">>)

RECURSIVE Binomial(_, _)
Binomial(n, r) ==
    IF r = 0 THEN 1 ELSE IF n = 0 THEN 0
    ELSE Binomial(n - 1, r - 1) + Binomial(n - 1, r)

\* C9: star_decoder processes the identity and the Paulis of weight
\* 1..n_correctable; it raises RuntimeError iff an error produces a syndrome
\* recorded before with a different recovery; otherwise the table has
\* 2^n_constraints entries in lexicographic syndrome order, the entry of a
\* syndrome being the common recovery of the errors that produce it, and
\* Unspecified when no error produces it.
C9_SyndromeTable ==
    (result.op = "star_decoder" /\ result.raised \in {"none", "RuntimeError"})
    => LET E   == result.errors
           t   == n_correctable(code)
           nc  == n_constraints(code)
           syn == [i \in 1..Len(E) |-> syndrome_of(code, result.encoder, E[i])]
           rec == [i \in 1..Len(E) |-> recovery_of(code, result.encoder, E[i])]
           Collide == \E i, j \in 1..Len(E) : i < j /\ syn[i] = syn[j] /\ rec[i] # rec[j]
       IN  /\ E[1] = eye_p(nq(code))
           /\ \A i \in 2..Len(E) : wt(E[i]) >= 1 /\ wt(E[i]) <= t /\ E[i].ph = 0
           /\ Cardinality(Range(E)) = Len(E)
           /\ Len(E) = 1 + SumSeq([w \in 1..t |-> Binomial(nq(code), w) * Pow(3, w)])
           /\ (result.raised = "RuntimeError") <=> Collide
           /\ result.raised = "none" =>
                 /\ Len(result.recovery_list) = Pow(2, nc)
                 /\ \A s \in [1..nc -> {0, 1}] :
                       LET hits == {i \in 1..Len(E) : syn[i] = s}
                       IN  IF hits = {}
                           THEN result.recovery_list[SyndromeIndex(s)] = Unspecified
                           ELSE \A i \in hits :
                                   result.recovery_list[SyndromeIndex(s)] = P(rec[i])

\* a degenerate table with unmapped syndromes: more errors than syndromes
\* produced, and syndromes no error produces
C9_Witness ==
    /\ result.op = "star_decoder"
    /\ result.raised = "none"
    /\ Unspecified \in Range(result.recovery_list)
    /\ Len(result.errors) >
          Cardinality({i \in DOMAIN result.recovery_list :
                          result.recovery_list[i] # Unspecified})
    /\ Len(result.errors) > 1

\* the collision case of C9 is reached as well
C9_CollisionReached ==
    /\ result.op = "star_decoder"
    /\ result.raised = "RuntimeError"

\* C10 as claimed: logical_ys[i] is logical_xs[i] * logical_zs[i] with its
\* phase normalized to +1, and so is the 'Y' replacement of
\* block_logical_pauli.
C10_Claimed ==
    /\ result.op = "logical_ys"
       => \A i \in DOMAIN result.val :
             /\ result.val[i].op = PauliMul(code.logical_xs[i], code.logical_zs[i]).op
             /\ result.val[i].ph = 0
    /\ (result.op = "block_logical_pauli" /\ result.arg = P(<<"Y">>)
            /\ ~IsRaised(result.val))
       => /\ result.val.op = PauliMul(code.logical_xs[1], code.logical_zs[1]).op
          /\ result.val.ph = 0

\* C10, amended: logical_ys[i] is i * logical_xs[i] * logical_zs[i] (the
\* phase exponent of the product raised by one), and so is the 'Y'
\* replacement of block_logical_pauli; the phase is +1 for perfect_5q_code()
\* but -1 for bit_flip_code(1) and steane_code().
C10_LogicalYPhase ==
    /\ result.op = "logical_ys"
       => /\ Len(result.val) = Len(code.logical_xs)
          /\ \A i \in DOMAIN result.val :
                LET prod == PauliMul(code.logical_xs[i], code.logical_zs[i])
                IN  /\ result.val[i].op = prod.op
                    /\ result.val[i].ph = (prod.ph + 1) % 4
          /\ code_eq(code, perfect_5q_code) => result.val[1] = Pauli(Repeat("Y", 5), 0)
          /\ code_eq(code, bit_flip_code(1)) => result.val[1] = Pauli(Repeat("Y", 3), 2)
          /\ code_eq(code, steane_code) => result.val[1] = Pauli(Repeat("Y", 7), 2)
    /\ (result.op = "block_logical_pauli" /\ result.arg = P(<<"Y">>)
            /\ ~IsRaised(result.val))
       => LET prod == PauliMul(code.logical_xs[1], code.logical_zs[1])
          IN  result.val = Pauli(prod.op, prod.ph + 1)

C10_Witness ==
    /\ result.op = "logical_ys"
    /\ code_eq(code, steane_code)
    /\ result.val[1].ph = 2

\* a pass of the loop of minimize_distance_from has just run
StepDone == pc = "minimize_distance_from" /\ mdf.last # NoLocals

\* the products of the non-empty subsets of gens[idx_generator:], the
\* candidates of the pass at position idx_generator (0-based)
CandidateProducts(gens, idx_generator) ==
    LET tail == SubSeq(gens, idx_generator + 1, Len(gens))
        subsets == Range(powerset(tail)) \ {<<>>}
    IN  {ReduceMul(Tail(t), Head(t)) : t \in subsets}

\* best is the lexicographic minimum of (Hamming distance to target, weight)
\* over cands
LexMinimal(best_gen, cands, target) ==
    /\ best_gen \in cands
    /\ \A c \in cands : hamming_dist(best_gen, target) <= hamming_dist(c, target)
    /\ \A c \in cands :
          hamming_dist(c, target) = hamming_dist(best_gen, target)
              => wt(best_gen) <= wt(c)

\* C11 as claimed: at every position the candidate selected minimizes the
\* Hamming distance to other.group_generators[i] over the products of the
\* non-empty subsets of self.group_generators[i:], and has minimum weight
\* among the candidates at that minimum distance.
C11_Claimed ==
    StepDone
    => LexMinimal(mdf.last.best.best_gen,
                  CandidateProducts(mdf.last.before, mdf.idx_generator - 1),
                  mdf.other_gens[mdf.idx_generator])

\* the failing input of C11: a candidate closer to the target than the one
\* selected was passed over because it is heavier
C11_Reached ==
    /\ StepDone
    /\ \E c \in CandidateProducts(mdf.last.before, mdf.idx_generator - 1) :
          /\ hamming_dist(c, mdf.other_gens[mdf.idx_generator])
                < hamming_dist(mdf.last.best.best_gen, mdf.other_gens[mdf.idx_generator])
          /\ wt(c) > wt(mdf.last.best.best_gen)

ValidSingle(c) ==
    /\ Len(c.logical_xs) = 1
    /\ Len(c.logical_zs) = 1
    /\ nq_logical(c) = 1
    /\ n_constraints(c) = nq(c) - 1
    /\ \A i, j \in DOMAIN c.group_generators :
          i < j => Commute(c.group_generators[i], c.group_generators[j])
    /\ \A i \in DOMAIN c.group_generators :
          /\ PauliLen(c.group_generators[i]) = nq(c)
          /\ Commute(c.group_generators[i], c.logical_xs[1])
          /\ Commute(c.group_generators[i], c.logical_zs[1])
    /\ Anticommute(c.logical_xs[1], c.logical_zs[1])

\* the symbols of A on block b of n1 qubits
BlockOf(A, b, n1) == SubSeq(A.op, (b - 1) * n1 + 1, b * n1)

\* the symbols the inner code puts in a block for one symbol of an outer
\* operator
InnerImage(inner, sq_op) ==
    CASE sq_op = "I" -> eye_p(nq(inner)).op
      [] sq_op = "X" -> inner.logical_xs[1].op
      [] sq_op = "Z" -> inner.logical_zs[1].op
      [] OTHER -> PauliMul(inner.logical_xs[1], inner.logical_zs[1]).op

\* new_op is outer_op with every symbol replaced by its image, block by block
BlockLogical(inner, outer_op, new_op) ==
    /\ PauliLen(new_op) = nq(inner) * PauliLen(outer_op)
    /\ \A b \in 1..PauliLen(outer_op) :
          BlockOf(new_op, b, nq(inner)) = InnerImage(inner, outer_op.op[b])

\* C13: for valid codes self (n1 qubits) and other (n2 qubits) with one
\* logical qubit each, self.concatenate(other) is a code on n1*n2 qubits
\* whose generators are the n2 block-placed copies of self's generators
\* (block 0 first) followed by the block-logical image of each generator of
\* other, so n_constraints = n2*(n1-1) + (n2-1) and nq_logical = 1; the
\* generators mutually commute, and the logical X and Z (the block-logical
\* images of other's) anticommute and commute with every generator.
C13_Concatenate ==
    (/\ result.op = "concatenate"
     /\ ValidSingle(code)
     /\ ValidSingle(result.other))
    => /\ ~IsRaised(result.val)
       /\ LET new == result.val
              other == result.other
              n1 == nq(code)
              n2 == nq(other)
              m1 == Len(code.group_generators)
              m2 == Len(other.group_generators)
          IN  /\ nq(new) = n1 * n2
              /\ Len(new.group_generators) = n2 * m1 + m2
              /\ n_constraints(new) = n2 * (n1 - 1) + (n2 - 1)
              /\ nq_logical(new) = 1
              /\ \A b \in 1..n2 : \A j \in 1..m1 :
                    LET g == new.group_generators[(b - 1) * m1 + j]
                    IN  /\ PauliLen(g) = n1 * n2
                        /\ g.ph = code.group_generators[j].ph
                        /\ \A b2 \in 1..n2 :
                              BlockOf(g, b2, n1) =
                                  IF b2 = b THEN code.group_generators[j].op
                                  ELSE eye_p(n1).op
              /\ \A j \in 1..m2 :
                    /\ new.group_generators[n2 * m1 + j]
                          = block_logical_pauli(code, other.group_generators[j])
                    /\ BlockLogical(code, other.group_generators[j],
                                    new.group_generators[n2 * m1 + j])
              /\ \A i, j \in DOMAIN new.group_generators :
                    i < j => Commute(new.group_generators[i], new.group_generators[j])
              /\ new.logical_xs = <<block_logical_pauli(code, other.logical_xs[1])>>
              /\ new.logical_zs = <<block_logical_pauli(code, other.logical_zs[1])>>
              /\ BlockLogical(code, other.logical_xs[1], new.logical_xs[1])
              /\ BlockLogical(code, other.logical_zs[1], new.logical_zs[1])
              /\ Anticommute(new.logical_xs[1], new.logical_zs[1])
              /\ \A i \in DOMAIN new.group_generators :
                    /\ Commute(new.group_generators[i], new.logical_xs[1])
                    /\ Commute(new.group_generators[i], new.logical_zs[1])

\* the perfect 5-qubit code concatenated with the Steane code: 35 qubits
\* and 7*4 + 6 generators
C13_Witness ==
    /\ result.op = "concatenate"
    /\ code_eq(code, perfect_5q_code)
    /\ code_eq(result.other, steane_code)
    /\ ~IsRaised(result.val)
    /\ nq(result.val) = 35
    /\ n_constraints(result.val) = 34

\* the receiver is as its factory returned it: no call has run on it
AsConstructed == pc = "idle" /\ result = NoResult /\ n_minimize = 0

\* C14: every code the static factories produce (flip_code(t) of kind Z and
\* X, perfect_5q_code, steane_code, shor_code) has all its operators on the
\* same nq qubits, mutually commuting generators that generate a group of
\* order exactly 2^n_constraints, nq_logical = 1, a logical X that
\* anticommutes with the logical Z, and logical operators that commute with
\* every generator and are not in the stabilizer group.
C14_FactoryCodes ==
    (AsConstructed /\ code \in StaticFactoryCodes)
    => LET gens == code.group_generators
           S == Generated(gens, nq(code))
       IN  /\ nq(code) > 0
           /\ \A i \in DOMAIN gens : PauliLen(gens[i]) = nq(code)
           /\ Len(code.logical_xs) = 1 /\ PauliLen(code.logical_xs[1]) = nq(code)
           /\ Len(code.logical_zs) = 1 /\ PauliLen(code.logical_zs[1]) = nq(code)
           /\ \A i, j \in DOMAIN gens : Commute(gens[i], gens[j])
           /\ Cardinality(S) = Pow(2, n_constraints(code))
           /\ Cardinality({g.op : g \in S}) = Pow(2, n_constraints(code))
           /\ nq_logical(code) = 1
           /\ Anticommute(code.logical_xs[1], code.logical_zs[1])
           /\ \A i \in DOMAIN gens :
                 /\ Commute(gens[i], code.logical_xs[1])
                 /\ Commute(gens[i], code.logical_zs[1])
           /\ code.logical_xs[1].op \notin {g.op : g \in S}
           /\ code.logical_zs[1].op \notin {g.op : g \in S}

\* the Shor code as shor_code() returns it: 9 qubits, 8 generators
C14_Witness ==
    /\ AsConstructed
    /\ code \in StaticFactoryCodes
    /\ code.label = <<"9-qubit Shor code">>
    /\ nq(code) = 9
    /\ n_constraints(code) = 8

====
